---- MODULE Spec2Model ----
(***************************************************************************)
(* A model of kwldn_bot/bot.py: XMultiBot, the multi-identity router.      *)
(*                                                                         *)
(* The program is single-threaded asyncio code.  A coroutine runs without  *)
(* interruption from one await to the next, so every action below is the   *)
(* code between two consecutive awaits of one coroutine: it starts when    *)
(* the awaited call completes (successfully or by raising) and ends when   *)
(* the coroutine suspends at its next await, returns or raises.            *)
(*                                                                         *)
(* The external messaging service is the environment: which tokens it      *)
(* authorizes (valid), which identities have a webhook subscription        *)
(* (hooked), and the updates it holds for each identity (stream).          *)
(***************************************************************************)
EXTENDS Naturals, Sequences, FiniteSets

(***************************************************************************)
(* Bounds of the model.                                                    *)
(***************************************************************************)
\* polling tasks ever created in one run
MaxTasks == 3
\* updates the service receives in a run of the polling loops (SpecLoop)
LoopUpdates == 4
\* transient faults in a run of the lifecycle (Spec)
MaxFaults == 1
\* transient faults in a run of the polling loops (SpecLoop)
LoopFaults == 2
\* length of the Startup Identity List
MaxList == 2
\* callers of add_minion / delete_minion that may be in flight
NumCallers == 1
\* coroutines calling add_minion / delete_minion concurrently, once each
ConcCallers == 2

(***************************************************************************)
(* Tokens.  A token is "<bot id>:<secret>"; it is modelled as the pair.    *)
(***************************************************************************)
MainToken == <<1, "m">>
TokenA == <<2, "a">>
TokenB == <<3, "b">>
Tokens == {MainToken, TokenA, TokenB}
\* the tokens passed to add_minion and delete_minion
MinionTokens == {TokenA, TokenB}
NoToken == <<0, "">>
\* a deleted slot of the dict's entry array
Tomb == <<0, "x">>

\* Bot.id: the integer before the colon of the token
BotId(t) == t[1]
BotIds == {BotId(t) : t \in Tokens}

VARIABLES
    use_webhook,     \* XMultiBot.use_webhook
    startup_tokens,  \* XMultiBot._startup_tokens
    running,         \* XMultiBot._running
    minions,         \* XMultiBot.minions: the keys, in the dict's entry order
    polling_tasks,   \* XMultiBot._polling_tasks: bot id -> task (0: no entry)
    tasks,           \* every asyncio.Task created for _polling_loop
    st,              \* the coroutine running start()
    callers,         \* the coroutines running add_minion / delete_minion
    pre,             \* the Registry as it was when start() began
    passed,          \* listed tokens whose who-am-i probe passed at start-up
    valid,           \* service: tokens it authorizes
    hooked,          \* service: tokens with a webhook subscription
    stream,          \* service: updates pending for each token
    produced,        \* service: number of updates received so far
    sent,            \* service: every update it ever received for each token
    faults,          \* transient faults (transport errors, Pipeline errors) so far
    maxFaults,       \* the transient faults of one run
    observed,        \* whether the Pipeline records what it is handed
    broken,          \* service: tokens whose get_updates always raises
    oneShot,         \* whether each calling coroutine makes one call only
    fed              \* tokens whose updates the minion route handed to the Pipeline

vars == <<use_webhook, startup_tokens, running, minions, polling_tasks, tasks,
          st, callers, pre, passed, valid, hooked, stream, produced, sent,
          faults, maxFaults, observed, broken, oneShot, fed>>

\* fixed at construction, or by the run that is checked
config == <<use_webhook, observed, maxFaults, broken, oneShot>>

progVars == <<config, fed, startup_tokens, running, minions, polling_tasks, st, pre,
              passed>>
svcVars == <<valid, hooked, stream, produced, sent, faults>>
\* the service apart from the count of faults
svcState == <<valid, hooked, stream, produced, sent>>

(***************************************************************************)
(* Sequences and the dict of minions.                                      *)
(***************************************************************************)
Range(s) == {s[i] : i \in 1..Len(s)}

RECURSIVE SeqsUpTo(_, _)
SeqsUpTo(S, n) ==
    IF n = 0 THEN {<<>>}
    ELSE LET shorter == SeqsUpTo(S, n - 1)
         IN shorter \cup {Append(s, x) : s \in {q \in shorter : Len(q) = n - 1}, x \in S}

\* the tokens that are keys of the dict
Keys(entries) == Range(entries) \ {Tomb}

Compact(entries) == SelectSeq(entries, LAMBDA e : e # Tomb)

\* a dict iterator is alive only inside the loop of line 170
IterActive == st.pc \in {"sp_get_me", "sp_del"} /\ st.phase = "minions"

\* self.minions[token] = bot: a new key takes the next entry, a present key
\* keeps its entry
DictSet(entries, t) ==
    IF t \in Keys(entries) THEN entries ELSE Append(entries, t)

\* del self.minions[token] (the key is present): the entry becomes a dummy.
\* Dummies are visible to a live iterator only, so none is kept without one.
DictDel(entries, t) ==
    IF IterActive
    THEN [i \in 1..Len(entries) |-> IF entries[i] = t THEN Tomb ELSE entries[i]]
    ELSE SelectSeq(entries, LAMBDA e : e # t /\ e # Tomb)

(***************************************************************************)
(* Tasks.                                                                  *)
(***************************************************************************)
TaskIds == 1..Len(tasks)

\* asyncio.create_task(self._polling_loop(bot)): the task is scheduled, its
\* body has not run yet
NewTask(t) ==
    [bot |-> t, pc |-> "new", cancel |-> FALSE, offset |-> 0, batch |-> <<>>,
     handed |-> <<>>, result |-> "none"]

\* task.done()
Done(k) == tasks[k].pc = "done"

\* a Polling Loop that has not stopped
Active(k) == ~Done(k)

(***************************************************************************)
(* The callers of add_minion and delete_minion.  What a call returned or   *)
(* raised is visible in the state it ends in; the coroutine is gone with   *)
(* the next step of the program or of the service.                         *)
(***************************************************************************)
Callers == DOMAIN callers

CallerIdle ==
    [kind |-> "none", token |-> NoToken, pc |-> "idle", task |-> 0, res |-> "none"]

\* with oneShot the coroutine's record is kept instead: what it returned
\* or raised stays visible and the coroutine makes no further call
Forgotten ==
    IF oneShot THEN callers
    ELSE [c \in Callers |-> IF callers[c].pc = "done" THEN CallerIdle ELSE callers[c]]

(***************************************************************************)
(* The messaging service.                                                  *)
(***************************************************************************)
\* an awaited call may fail with a transient fault while the run has any left
FaultChoice == IF faults < maxFaults THEN BOOLEAN ELSE {FALSE}

Faulted(fault) == faults' = IF fault THEN faults + 1 ELSE faults

\* get_updates with token t raises always if t is broken, else as any call
FetchFaults(t) == IF t \in broken THEN {TRUE} ELSE FaultChoice

\* the failures of a broken token are not counted as transient faults
FetchFaulted(t, fault) == faults' = IF fault /\ t \notin broken THEN faults + 1 ELSE faults

\* get_updates(offset): the pending updates from offset on, oldest first
GetUpdates(t, offset) == SelectSeq(stream[t], LAMBDA u : u >= offset)

\* variant of TeardownDrop: the subscription is left in place
TeardownSkipped(t) == UNCHANGED <<hooked, stream>>

\* delete_webhook(drop_pending_updates=True) succeeded for token t
TeardownDrop(t) ==
    /\ hooked' = hooked \ {t}
    /\ stream' = [stream EXCEPT ![t] = <<>>]

\* the service receives one more update for token t
Produce(t) ==
    /\ produced' = produced + 1
    /\ stream' = [stream EXCEPT ![t] = Append(@, produced + 1)]
    /\ sent' = [sent EXCEPT ![t] = Append(@, produced + 1)]
    /\ callers' = Forgotten
    /\ UNCHANGED <<progVars, tasks, valid, hooked, faults>>

\* the service stops authorizing token t
Revoke(t) ==
    /\ t \in valid
    /\ valid' = valid \ {t}
    /\ callers' = Forgotten
    /\ UNCHANGED <<progVars, tasks, hooked, stream, produced, sent, faults>>

(***************************************************************************)
(* _polling_loop, one action per await.                                    *)
(***************************************************************************)
\* variant of FeedReturned: offset = u.update_id, without the + 1
FeedReturnedSameOffset(task) ==
    [task EXCEPT !.handed = IF observed THEN Append(@, Head(task.batch)) ELSE @,
                 !.offset = Head(task.batch),
                 !.batch = Tail(task.batch),
                 !.pc = IF Tail(task.batch) = <<>> THEN "fetch" ELSE "feed"]

\* the loop's frame after feed_update returned for the first update of the
\* batch: offset = u.update_id + 1, then the next update or the next fetch
FeedReturned(task) ==
    [task EXCEPT !.handed = IF observed THEN Append(@, Head(task.batch)) ELSE @,
                 !.offset = Head(task.batch) + 1,
                 !.batch = Tail(task.batch),
                 !.pc = IF Tail(task.batch) = <<>> THEN "fetch" ELSE "feed"]

\* variant of LoopFailed: the offset moves past the update whose delivery
\* raised
LoopFailedSkips(task) ==
    [task EXCEPT !.offset = IF task.batch = <<>> THEN @ ELSE Head(task.batch) + 1,
                 !.batch = <<>>, !.pc = "sleep"]

\* variant of LoopFailed: the failure ends the loop
LoopFailedStops(task) ==
    [task EXCEPT !.batch = <<>>, !.pc = "done", !.result = "raised"]

\* the loop's frame after get_updates or feed_update raised an Exception:
\* the rest of the batch is dropped, the loop sleeps
LoopFailed(task) == [task EXCEPT !.batch = <<>>, !.pc = "sleep"]

\* the loop's frame after get_updates returned the batch
FetchReturned(task, batch) ==
    IF batch = <<>> THEN task
    ELSE [task EXCEPT !.batch = batch, !.pc = "feed"]

\* the task runs for the first time: offset = 0 and the first get_updates
LoopStart(k) ==
    /\ tasks[k].pc = "new"
    /\ ~tasks[k].cancel
    /\ tasks' = [tasks EXCEPT ![k].pc = "fetch", ![k].offset = 0]
    /\ callers' = Forgotten
    /\ UNCHANGED <<progVars, svcVars>>

\* await bot.get_updates(offset=offset, timeout=30) completes; the service
\* forgets the updates before offset
LoopFetch(k) ==
    /\ tasks[k].pc = "fetch"
    /\ ~tasks[k].cancel
    /\ \E fault \in FetchFaults(tasks[k].bot) :
         /\ FetchFaulted(tasks[k].bot, fault)
         /\ IF fault
            THEN /\ tasks' = [tasks EXCEPT ![k] = LoopFailed(@)]
                 /\ stream' = stream
            ELSE LET batch == GetUpdates(tasks[k].bot, tasks[k].offset)
                 IN /\ tasks' = [tasks EXCEPT ![k] = FetchReturned(@, batch)]
                    /\ stream' = [stream EXCEPT ![tasks[k].bot] = batch]
    /\ callers' = Forgotten
    /\ UNCHANGED <<progVars, valid, hooked, produced, sent>>

\* await self.dispatcher.feed_update(bot, update) completes
LoopFeed(k) ==
    /\ tasks[k].pc = "feed"
    /\ ~tasks[k].cancel
    /\ \E fault \in FaultChoice :
         /\ Faulted(fault)
         /\ tasks' = [tasks EXCEPT ![k] = IF fault THEN LoopFailed(@)
                                           ELSE FeedReturned(@)]
    /\ callers' = Forgotten
    /\ UNCHANGED <<progVars, svcState>>

\* await asyncio.sleep(1) completes
LoopWake(k) ==
    /\ tasks[k].pc = "sleep"
    /\ ~tasks[k].cancel
    /\ tasks' = [tasks EXCEPT ![k].pc = "fetch"]
    /\ callers' = Forgotten
    /\ UNCHANGED <<progVars, svcVars>>

\* the task's next step after task.cancel(): CancelledError is thrown at
\* the await where it is suspended.  Inside the try it is caught and the
\* loop breaks; inside the except handler (the sleep), or before the body
\* ever ran, it ends the task as cancelled.
LoopCancelled(k) ==
    /\ tasks[k].cancel
    /\ ~Done(k)
    /\ tasks' = [tasks EXCEPT ![k].pc = "done", ![k].offset = 0,
                              ![k].batch = <<>>,
                              ![k].result = IF tasks[k].pc \in {"fetch", "feed"}
                                            THEN "returned" ELSE "cancelled"]
    /\ callers' = Forgotten
    /\ UNCHANGED <<progVars, svcVars>>

(***************************************************************************)
(* The coroutine of start().                                               *)
(***************************************************************************)
StIdle ==
    [pc |-> "idle", i |-> 0, cur |-> NoToken, phase |-> "none", pos |-> 0,
     remaining |-> 0, size |-> 0, gathered |-> {}, err |-> "none"]

StAt(pc) == [StIdle EXCEPT !.pc = pc]

StRaised(err) == [StIdle EXCEPT !.pc = "raised", !.err = err]

(***************************************************************************)
(* Outcomes of the calls to the service.                                   *)
(***************************************************************************)

\* get_me() with token t: "ok", TelegramUnauthorizedError, or another error
GetMeOutcome(t, fault) ==
    IF fault THEN "TransportError"
    ELSE IF t \in valid THEN "ok" ELSE "TelegramUnauthorizedError"

Min(S) == CHOOSE x \in S : \A y \in S : x <= y

(***************************************************************************)
(* register_minions                                                        *)
(***************************************************************************)
RegisterMinions(tokens) ==
    /\ startup_tokens' = tokens
    /\ callers' = Forgotten
    /\ UNCHANGED <<config, fed, running, minions, polling_tasks, tasks, st,
                   pre, passed, svcVars>>

(***************************************************************************)
(* _start_single_polling, after its delete_webhook returned: the task is   *)
(* created and recorded under the bot's id.                                *)
(***************************************************************************)
SpawnPolling(t) ==
    /\ tasks' = Append(tasks, NewTask(t))
    /\ polling_tasks' = [polling_tasks EXCEPT ![BotId(t)] = Len(tasks) + 1]

(***************************************************************************)
(* start() in pull mode: _start_polling_all                                *)
(***************************************************************************)
\* the for loop of lines 158-167 from index i on, with the Registry m: it
\* skips the tokens already present and suspends in get_me of the first
\* other one; after the last token: _running = True and the coroutine
\* suspends in _start_single_polling(main_bot), at its get_me
ReconcileFrom(i, m) ==
    LET cand == {j \in i..Len(startup_tokens) : startup_tokens[j] \notin Keys(m)}
    IN IF cand = {}
       THEN /\ running' = TRUE
            /\ st' = [StAt("sp_get_me") EXCEPT !.cur = MainToken, !.phase = "main"]
       ELSE /\ running' = running
            /\ st' = [StAt("rec_get_me") EXCEPT !.i = Min(cand)]

\* next() of the iterator of self.minions.values()
IterNext(entries, pos, remaining, size) ==
    LET live == {j \in pos..Len(entries) : entries[j] # Tomb}
    IN IF Cardinality(Keys(entries)) # size THEN [kind |-> "error", tok |-> NoToken, pos |-> 0]
       ELSE IF live = {} THEN [kind |-> "stop", tok |-> NoToken, pos |-> 0]
       ELSE IF remaining = 0 THEN [kind |-> "error", tok |-> NoToken, pos |-> 0]
       ELSE [kind |-> "yield", tok |-> entries[Min(live)], pos |-> Min(live) + 1]

\* start() is called
StartBegin ==
    /\ st.pc = "idle"
    /\ pre' = Keys(minions)
    /\ passed' = {}
    /\ st' = IF use_webhook
             THEN IF startup_tokens = <<>> THEN StAt("hk_main_set")
                  ELSE [StAt("hk_get_me") EXCEPT !.i = 1]
             ELSE StAt("main_get_me")
    /\ callers' = Forgotten
    /\ UNCHANGED <<config, fed, startup_tokens, running, minions, polling_tasks,
                   tasks, svcVars>>

\* line 156: await self.main_bot.get_me()
StartMainGetMe ==
    /\ st.pc = "main_get_me"
    /\ \E fault \in FaultChoice :
         /\ Faulted(fault)
         /\ LET r == GetMeOutcome(MainToken, fault)
            IN st' = IF r = "ok" THEN StAt("main_del") ELSE StRaised(r)
    /\ callers' = Forgotten
    /\ UNCHANGED <<config, fed, startup_tokens, running, minions, polling_tasks,
                   tasks, pre, passed, svcState>>

\* line 157: await self.main_bot.delete_webhook(drop_pending_updates=True),
\* then the reconciliation loop up to its first await
StartMainDeleteWebhook ==
    /\ st.pc = "main_del"
    /\ \E fault \in FaultChoice :
         /\ Faulted(fault)
         /\ IF fault
            THEN /\ st' = StRaised("TransportError")
                 /\ UNCHANGED <<running, hooked, stream>>
            ELSE /\ TeardownDrop(MainToken)
                 /\ ReconcileFrom(1, minions)
    /\ callers' = Forgotten
    /\ UNCHANGED <<config, fed, startup_tokens, minions, polling_tasks, tasks,
                   pre, passed, valid, produced, sent>>

\* variant of ProbeBranch: no except clause skips the token
ProbeBranchNoContinue(r) ==
    IF r \in {"ok", "TelegramUnauthorizedError"} THEN "store" ELSE "raise"

\* lines 162-165, and 73-76 in push mode: try: await b.get_me() / except
\* TelegramUnauthorizedError: continue; where the loop over the listed
\* tokens goes after get_me ended with r
ProbeBranch(r) ==
    IF r = "ok" THEN "store"
    ELSE IF r = "TelegramUnauthorizedError" THEN "continue"
    ELSE "raise"

\* line 163: await b.get_me(); unauthorized: continue
StartRecGetMe ==
    /\ st.pc = "rec_get_me"
    /\ \E fault \in FaultChoice :
         /\ Faulted(fault)
         /\ LET t == startup_tokens[st.i]
                r == GetMeOutcome(t, fault)
            IN /\ passed' = IF r = "ok" THEN passed \cup {t} ELSE passed
               /\ IF ProbeBranch(r) = "store"
                  THEN /\ st' = [st EXCEPT !.pc = "rec_del"]
                       /\ running' = running
                  ELSE IF ProbeBranch(r) = "continue"
                  THEN ReconcileFrom(st.i + 1, minions)
                  ELSE /\ st' = StRaised(r)
                       /\ running' = running
    /\ callers' = Forgotten
    /\ UNCHANGED <<config, fed, startup_tokens, minions, polling_tasks, tasks,
                   pre, svcState>>

\* line 166: await b.delete_webhook(drop_pending_updates=True), then
\* self.minions[token] = b and the rest of the reconciliation loop
StartRecDeleteWebhook ==
    /\ st.pc = "rec_del"
    /\ \E fault \in FaultChoice :
         /\ Faulted(fault)
         /\ IF fault
            THEN /\ st' = StRaised("TransportError")
                 /\ UNCHANGED <<running, minions, hooked, stream>>
            ELSE /\ TeardownDrop(startup_tokens[st.i])
                 /\ minions' = DictSet(minions, startup_tokens[st.i])
                 /\ ReconcileFrom(st.i + 1, minions')
    /\ callers' = Forgotten
    /\ UNCHANGED <<config, fed, startup_tokens, polling_tasks, tasks, pre, passed, valid, produced, sent>>

\* line 150, called from lines 169 and 171: await bot.get_me()
StartSpGetMe ==
    /\ st.pc = "sp_get_me"
    /\ \E fault \in FaultChoice :
         /\ Faulted(fault)
         /\ LET r == GetMeOutcome(st.cur, fault)
            IN /\ st' = IF r = "ok" THEN [st EXCEPT !.pc = "sp_del"] ELSE StRaised(r)
               /\ minions' = IF r = "ok" THEN minions ELSE Compact(minions)
    /\ callers' = Forgotten
    /\ UNCHANGED <<config, fed, startup_tokens, running, polling_tasks, tasks,
                   pre, passed, svcState>>

\* the coroutine after _start_single_polling returned: the iterator of line
\* 170 is created after the call of line 169, and advanced after each call
\* of line 171; when it is exhausted, asyncio.gather of the recorded tasks
StartAdvance(table) ==
    LET fresh == st.phase = "main"
        n == IterNext(minions,
                      IF fresh THEN 1 ELSE st.pos,
                      IF fresh THEN Cardinality(Keys(minions)) ELSE st.remaining,
                      IF fresh THEN Cardinality(Keys(minions)) ELSE st.size)
    IN IF n.kind = "yield"
       THEN /\ st' = [StAt("sp_get_me") EXCEPT
                        !.cur = n.tok, !.phase = "minions", !.pos = n.pos,
                        !.remaining = (IF fresh THEN Cardinality(Keys(minions))
                                       ELSE st.remaining) - 1,
                        !.size = IF fresh THEN Cardinality(Keys(minions)) ELSE st.size]
            /\ minions' = minions
       ELSE /\ st' = IF n.kind = "stop"
                     THEN [StAt("gather") EXCEPT
                             !.gathered = {table[id] : id \in BotIds} \ {0}]
                     ELSE StRaised("RuntimeError")
            /\ minions' = Compact(minions)

\* line 151: await bot.delete_webhook(drop_pending_updates=True), then the
\* task is created and recorded
StartSpDeleteWebhook ==
    /\ st.pc = "sp_del"
    /\ \E fault \in FaultChoice :
         /\ Faulted(fault)
         /\ IF fault
            THEN /\ st' = StRaised("TransportError")
                 /\ minions' = Compact(minions)
                 /\ UNCHANGED <<polling_tasks, tasks, hooked, stream>>
            ELSE /\ TeardownDrop(st.cur)
                 /\ SpawnPolling(st.cur)
                 /\ StartAdvance(polling_tasks')
    /\ callers' = Forgotten
    /\ UNCHANGED <<config, fed, startup_tokens, running, pre, passed,
                   valid, produced, sent>>

\* line 172: a gathered task was cancelled: gather raises CancelledError
StartGatherRaises ==
    /\ st.pc = "gather"
    /\ \E k \in st.gathered : Done(k) /\ tasks[k].result = "cancelled"
    /\ st' = StRaised("CancelledError")
    /\ callers' = Forgotten
    /\ UNCHANGED <<config, fed, startup_tokens, running, minions, polling_tasks,
                   tasks, pre, passed, svcVars>>

\* line 172: every gathered task returned: start() returns
StartGatherReturns ==
    /\ st.pc = "gather"
    /\ \A k \in st.gathered : Done(k) /\ tasks[k].result = "returned"
    /\ st' = StAt("returned")
    /\ callers' = Forgotten
    /\ UNCHANGED <<config, fed, startup_tokens, running, minions, polling_tasks,
                   tasks, pre, passed, svcVars>>

(***************************************************************************)
(* start() in push mode: on_startup, run by the application's start-up     *)
(***************************************************************************)
\* the for loop of line 71 at index i, or line 80 after the last token
OnStartupAt(i) ==
    IF i > Len(startup_tokens) THEN StAt("hk_main_set")
    ELSE [StAt("hk_get_me") EXCEPT !.i = i]

\* line 74: await new_bot.get_me(); unauthorized: continue
StartHookGetMe ==
    /\ st.pc = "hk_get_me"
    /\ \E fault \in FaultChoice :
         /\ Faulted(fault)
         /\ LET t == startup_tokens[st.i]
                r == GetMeOutcome(t, fault)
            IN /\ st' = IF ProbeBranch(r) = "store" THEN [st EXCEPT !.pc = "hk_del"]
                        ELSE IF ProbeBranch(r) = "continue" THEN OnStartupAt(st.i + 1)
                        ELSE StRaised(r)
               /\ passed' = IF r = "ok" THEN passed \cup {t} ELSE passed
    /\ callers' = Forgotten
    /\ UNCHANGED <<config, fed, startup_tokens, running, minions, polling_tasks,
                   tasks, pre, svcState>>

\* line 77: await new_bot.delete_webhook(drop_pending_updates=True)
StartHookDeleteWebhook ==
    /\ st.pc = "hk_del"
    /\ \E fault \in FaultChoice :
         /\ Faulted(fault)
         /\ IF fault
            THEN /\ st' = StRaised("TransportError")
                 /\ UNCHANGED <<hooked, stream>>
            ELSE /\ TeardownDrop(startup_tokens[st.i])
                 /\ st' = [st EXCEPT !.pc = "hk_set"]
    /\ callers' = Forgotten
    /\ UNCHANGED <<config, fed, startup_tokens, running, minions, polling_tasks,
                   tasks, pre, passed, valid, produced, sent>>

\* line 78: await new_bot.set_webhook(...), then self.minions[token] = new_bot
StartHookSetWebhook ==
    /\ st.pc = "hk_set"
    /\ \E fault \in FaultChoice :
         /\ Faulted(fault)
         /\ IF fault
            THEN /\ st' = StRaised("TransportError")
                 /\ UNCHANGED <<hooked, minions>>
            ELSE /\ hooked' = hooked \cup {startup_tokens[st.i]}
                 /\ minions' = DictSet(minions, startup_tokens[st.i])
                 /\ st' = OnStartupAt(st.i + 1)
    /\ callers' = Forgotten
    /\ UNCHANGED <<config, fed, startup_tokens, running, polling_tasks, tasks,
                   pre, passed, valid, stream, produced, sent>>

\* line 80: await bot.set_webhook(...) of the primary identity; the server
\* then listens until shutdown
StartMainSetWebhook ==
    /\ st.pc = "hk_main_set"
    /\ \E fault \in FaultChoice :
         /\ Faulted(fault)
         /\ IF fault
            THEN /\ st' = StRaised("TransportError")
                 /\ hooked' = hooked
            ELSE /\ hooked' = hooked \cup {MainToken}
                 /\ st' = StAt("serving")
    /\ callers' = Forgotten
    /\ UNCHANGED <<config, fed, startup_tokens, running, minions, polling_tasks,
                   tasks, pre, passed, valid, stream, produced, sent>>

(***************************************************************************)
(* Push mode: the minion route.  The TokenBasedRequestHandler registered   *)
(* on OTHER_BOTS_PATH is given the dispatcher and the bot settings, not    *)
(* the Registry, and no secret: a request on the route with token t in     *)
(* its path is served with a Bot made from that token, and its update is   *)
(* fed to the dispatcher.                                                  *)
(***************************************************************************)
RouteUpdate(t) ==
    /\ use_webhook
    /\ st.pc = "serving"
    /\ fed' = fed \cup {t}
    /\ callers' = Forgotten
    /\ UNCHANGED <<config, startup_tokens, running, minions, polling_tasks,
                   tasks, st, pre, passed, svcVars>>

(***************************************************************************)
(* add_minion                                                              *)
(***************************************************************************)
\* a coroutine that is not suspended inside add_minion or delete_minion
Free(c) == callers[c].pc = "idle" \/ (~oneShot /\ callers[c].pc = "done")

\* the coroutine returned res, or raised the exception res
CallerEnds(cr, res) == [cr EXCEPT !.pc = "done", !.res = res]

\* variant of AddAfterStore: the loop is started whether or not the
\* transport is running
AddAfterStoreAlways(cr) == [cr EXCEPT !.pc = "sp_get_me"]

\* lines 96-99 in pull mode, the Identity being stored: start a Polling
\* Loop if the transport is running (suspending in line 150), else return
AddAfterStore(cr) ==
    IF running THEN [cr EXCEPT !.pc = "sp_get_me"] ELSE CallerEnds(cr, "User")

\* add_minion(t) is called: line 87, await new_bot.get_me()
AddBegin(c, t) ==
    /\ Free(c)
    /\ callers' = [Forgotten EXCEPT ![c] =
                     [CallerIdle EXCEPT !.kind = "add", !.token = t, !.pc = "get_me"]]
    /\ UNCHANGED <<config, fed, startup_tokens, running, minions, polling_tasks,
                   tasks, st, pre, passed, svcVars>>

\* variant of AddProbed: the unauthorized error is not caught
AddProbedUncaught(cr, r) ==
    IF r = "ok" THEN [cr EXCEPT !.pc = "del_wh"] ELSE CallerEnds(cr, r)

\* lines 86-89: the coroutine after get_me ended with r; unauthorized:
\* return None; another error propagates
AddProbed(cr, r) ==
    IF r = "ok" THEN [cr EXCEPT !.pc = "del_wh"]
    ELSE IF r = "TelegramUnauthorizedError" THEN CallerEnds(cr, "None")
    ELSE CallerEnds(cr, r)

\* line 87 completes; unauthorized: return None
AddGetMe(c) ==
    /\ callers[c].kind = "add"
    /\ callers[c].pc = "get_me"
    /\ \E fault \in FaultChoice :
         /\ Faulted(fault)
         /\ LET r == GetMeOutcome(callers[c].token, fault)
            IN callers' = [Forgotten EXCEPT ![c] = AddProbed(@, r)]
    /\ UNCHANGED <<config, fed, startup_tokens, running, minions, polling_tasks,
                   tasks, st, pre, passed, svcState>>

\* line 91 (push) or 95 (pull): delete_webhook(drop_pending_updates=True)
\* completes; pull: the Identity is stored, lines 96-99
AddDeleteWebhook(c) ==
    /\ callers[c].kind = "add"
    /\ callers[c].pc = "del_wh"
    /\ \E fault \in FaultChoice :
         /\ Faulted(fault)
         /\ IF fault
            THEN /\ callers' = [Forgotten EXCEPT ![c] = CallerEnds(@, "TransportError")]
                 /\ UNCHANGED <<minions, hooked, stream>>
            ELSE /\ TeardownDrop(callers[c].token)
                 /\ IF use_webhook
                    THEN /\ callers' = [Forgotten EXCEPT ![c].pc = "set_wh"]
                         /\ minions' = minions
                    ELSE /\ minions' = DictSet(minions, callers[c].token)
                         /\ callers' = [Forgotten EXCEPT ![c] = AddAfterStore(@)]
    /\ UNCHANGED <<config, fed, startup_tokens, running, polling_tasks, tasks,
                   st, pre, passed, valid, produced, sent>>

\* line 92 (push): set_webhook completes, the Identity is stored
AddSetWebhook(c) ==
    /\ callers[c].kind = "add"
    /\ callers[c].pc = "set_wh"
    /\ \E fault \in FaultChoice :
         /\ Faulted(fault)
         /\ IF fault
            THEN /\ callers' = [Forgotten EXCEPT ![c] = CallerEnds(@, "TransportError")]
                 /\ UNCHANGED <<minions, hooked>>
            ELSE /\ hooked' = hooked \cup {callers[c].token}
                 /\ minions' = DictSet(minions, callers[c].token)
                 /\ callers' = [Forgotten EXCEPT ![c] = CallerEnds(@, "User")]
    /\ UNCHANGED <<config, fed, startup_tokens, running, polling_tasks, tasks,
                   st, pre, passed, valid, stream, produced, sent>>

\* line 150, called from line 98: await bot.get_me(); any error propagates
AddSpGetMe(c) ==
    /\ callers[c].kind = "add"
    /\ callers[c].pc = "sp_get_me"
    /\ \E fault \in FaultChoice :
         /\ Faulted(fault)
         /\ LET r == GetMeOutcome(callers[c].token, fault)
            IN callers' = [Forgotten EXCEPT ![c] =
                             IF r = "ok" THEN [@ EXCEPT !.pc = "sp_del"]
                             ELSE CallerEnds(@, r)]
    /\ UNCHANGED <<config, fed, startup_tokens, running, minions, polling_tasks,
                   tasks, st, pre, passed, svcState>>

\* line 151, called from line 98: delete_webhook completes, the task is
\* created and recorded, add_minion returns the user
AddSpDeleteWebhook(c) ==
    /\ callers[c].kind = "add"
    /\ callers[c].pc = "sp_del"
    /\ \E fault \in FaultChoice :
         /\ Faulted(fault)
         /\ IF fault
            THEN /\ callers' = [Forgotten EXCEPT ![c] = CallerEnds(@, "TransportError")]
                 /\ UNCHANGED <<polling_tasks, tasks, hooked, stream>>
            ELSE /\ TeardownDrop(callers[c].token)
                 /\ SpawnPolling(callers[c].token)
                 /\ callers' = [Forgotten EXCEPT ![c] = CallerEnds(@, "User")]
    /\ UNCHANGED <<config, fed, startup_tokens, running, minions, st, pre,
                   passed, valid, produced, sent>>

(***************************************************************************)
(* delete_minion                                                           *)
(***************************************************************************)
\* lines 110 and 119: del self.minions[token]; return True.  KeyError if
\* the key is gone.
DropEntry(c) ==
    IF callers[c].token \in Keys(minions)
    THEN /\ minions' = DictDel(minions, callers[c].token)
         /\ callers' = [Forgotten EXCEPT ![c] = CallerEnds(@, "True")]
    ELSE /\ minions' = minions
         /\ callers' = [Forgotten EXCEPT ![c] = CallerEnds(@, "KeyError")]

\* variant of MinionsGet: a bot is found for every token
MinionsGetAny(m, t) == t

\* line 102: self.minions.get(token), NoToken standing for None
MinionsGet(m, t) == IF t \in Keys(m) THEN t ELSE NoToken

\* delete_minion(t) is called, up to its first await or its return
RemoveBegin(c, t) ==
    /\ Free(c)
    /\ LET cr == [CallerIdle EXCEPT !.kind = "remove", !.token = t]
           k == polling_tasks[BotId(t)]
       IN IF MinionsGet(minions, t) = NoToken
          THEN \* lines 103-104
               /\ callers' = [Forgotten EXCEPT ![c] = CallerEnds(cr, "False")]
               /\ UNCHANGED <<minions, polling_tasks, tasks>>
          ELSE IF use_webhook
          THEN \* line 107: await bot.delete_webhook()
               /\ callers' = [Forgotten EXCEPT ![c] = [cr EXCEPT !.pc = "rm_del_wh"]]
               /\ UNCHANGED <<minions, polling_tasks, tasks>>
          ELSE \* line 112: task = self._polling_tasks.pop(bot.id, None)
               /\ polling_tasks' = [polling_tasks EXCEPT ![BotId(t)] = 0]
               /\ IF k # 0 /\ ~Done(k)
                  THEN \* lines 114-116: task.cancel(); await task
                       /\ tasks' = [tasks EXCEPT ![k].cancel = TRUE]
                       /\ callers' = [Forgotten EXCEPT ![c] =
                                        [cr EXCEPT !.pc = "join", !.task = k]]
                       /\ minions' = minions
                  ELSE \* lines 119-120
                       /\ tasks' = tasks
                       /\ minions' = DictDel(minions, t)
                       /\ callers' = [Forgotten EXCEPT ![c] = CallerEnds(cr, "True")]
    /\ UNCHANGED <<config, fed, startup_tokens, running, st, pre, passed, svcVars>>

\* variant of RemoveDeleteWebhook: the failure of line 107 is not swallowed
RemoveDeleteWebhookRaises(c) ==
    /\ callers[c].kind = "remove"
    /\ callers[c].pc = "rm_del_wh"
    /\ \E fault \in FaultChoice :
         /\ Faulted(fault)
         /\ IF fault
            THEN /\ callers' = [Forgotten EXCEPT ![c] = CallerEnds(@, "TransportError")]
                 /\ UNCHANGED <<hooked, minions>>
            ELSE /\ hooked' = hooked \ {callers[c].token}
                 /\ DropEntry(c)
    /\ UNCHANGED <<config, fed, startup_tokens, running, polling_tasks, tasks,
                   st, pre, passed, valid, stream, produced, sent>>

\* line 107 completes or raises (swallowed), then lines 110-111
RemoveDeleteWebhook(c) ==
    /\ callers[c].kind = "remove"
    /\ callers[c].pc = "rm_del_wh"
    /\ \E fault \in FaultChoice :
         /\ Faulted(fault)
         /\ hooked' = IF fault THEN hooked ELSE hooked \ {callers[c].token}
    /\ DropEntry(c)
    /\ UNCHANGED <<config, fed, startup_tokens, running, polling_tasks, tasks,
                   st, pre, passed, valid, stream, produced, sent>>

\* line 116: the awaited task is done (returned, or cancelled: the
\* CancelledError is swallowed), then lines 119-120
RemoveJoin(c) ==
    /\ callers[c].kind = "remove"
    /\ callers[c].pc = "join"
    /\ Done(callers[c].task)
    /\ DropEntry(c)
    /\ UNCHANGED <<config, fed, startup_tokens, running, polling_tasks, tasks,
                   st, pre, passed, svcVars>>

(***************************************************************************)
(* Spec: the lifecycle.  add_minion, delete_minion and the bring-up of     *)
(* start() each run to completion before the next of them begins; the      *)
(* polling loops and the service run concurrently with them.  The service  *)
(* holds no updates (SpecLoop is about them), and the primary token is     *)
(* never passed to add_minion or delete_minion, so the primary's loop is   *)
(* never cancelled and the gather of line 172 never returns.               *)
(***************************************************************************)
\* the object after __init__, the service authorizing every token and
\* holding a webhook subscription for each
Constructed ==
    /\ use_webhook \in BOOLEAN
    /\ startup_tokens = <<>>
    /\ running = FALSE
    /\ minions = <<>>
    /\ polling_tasks = [id \in BotIds |-> 0]
    /\ tasks = <<>>
    /\ st = StIdle
    /\ pre = {}
    /\ passed = {}
    /\ valid = Tokens
    /\ hooked = Tokens
    /\ stream = [t \in Tokens |-> <<>>]
    /\ produced = 0
    /\ sent = [t \in Tokens |-> <<>>]
    /\ faults = 0
    /\ observed = FALSE
    /\ broken = {}
    /\ fed = {}

Init ==
    /\ Constructed
    /\ callers = [c \in 1..NumCallers |-> CallerIdle]
    /\ maxFaults = MaxFaults
    /\ oneShot = FALSE

StartupLists == SeqsUpTo(Tokens, MaxList) \ {<<>>}

\* start() is past its bring-up: blocked in gather or serving, or ended
StartSettled == st.pc \in {"idle", "gather", "serving", "returned", "raised"}

\* no add_minion, delete_minion or bring-up is in progress
Quiet == StartSettled /\ \A c \in Callers : Free(c)

\* the lowest free coroutine takes the next call
NextCaller(c) == Free(c) /\ \A d \in Callers : d < c => ~Free(d)

\* the tokens the service may stop authorizing
Revocable == {TokenB}

\* the tasks start() will create fit the bound
StartFits ==
    use_webhook \/
    Len(tasks) + 1 + Cardinality(Keys(minions) \cup Range(startup_tokens)) <= MaxTasks

\* the task add_minion may create fits the bound
AddFits == use_webhook \/ ~running \/ Len(tasks) < MaxTasks

Next ==
    \/ \E l \in StartupLists :
         st.pc = "idle" /\ startup_tokens = <<>> /\ Quiet /\ RegisterMinions(l)
    \/ Quiet /\ StartFits /\ StartBegin
    \/ StartMainGetMe
    \/ StartMainDeleteWebhook
    \/ StartRecGetMe
    \/ StartRecDeleteWebhook
    \/ StartSpGetMe
    \/ StartSpDeleteWebhook
    \/ StartGatherRaises
    \/ StartHookGetMe
    \/ StartHookDeleteWebhook
    \/ StartHookSetWebhook
    \/ StartMainSetWebhook
    \/ \E c \in Callers, t \in MinionTokens :
         Quiet /\ NextCaller(c) /\ AddFits /\ AddBegin(c, t)
    \/ \E c \in Callers : AddGetMe(c)
    \/ \E c \in Callers : AddDeleteWebhook(c)
    \/ \E c \in Callers : AddSetWebhook(c)
    \/ \E c \in Callers : AddSpGetMe(c)
    \/ \E c \in Callers : AddSpDeleteWebhook(c)
    \/ \E c \in Callers, t \in MinionTokens :
         Quiet /\ NextCaller(c) /\ RemoveBegin(c, t)
    \/ \E c \in Callers : RemoveDeleteWebhook(c)
    \/ \E c \in Callers : RemoveJoin(c)
    \/ \E k \in TaskIds : LoopStart(k)
    \/ \E k \in TaskIds : LoopFetch(k)
    \/ \E k \in TaskIds : LoopWake(k)
    \/ \E k \in TaskIds : LoopCancelled(k)
    \/ \E t \in Revocable : Revoke(t)

Spec == Init /\ [][Next]_vars

(***************************************************************************)
(* SpecPush: the lifecycle in push mode, with requests arriving on the     *)
(* minion route while the server listens.                                  *)
(***************************************************************************)
InitPush == Init /\ use_webhook

NextPush ==
    \/ \E l \in StartupLists :
         st.pc = "idle" /\ startup_tokens = <<>> /\ Quiet /\ RegisterMinions(l)
    \/ Quiet /\ StartBegin
    \/ StartHookGetMe
    \/ StartHookDeleteWebhook
    \/ StartHookSetWebhook
    \/ StartMainSetWebhook
    \/ \E c \in Callers, t \in MinionTokens :
         Quiet /\ NextCaller(c) /\ AddBegin(c, t)
    \/ \E c \in Callers : AddGetMe(c)
    \/ \E c \in Callers : AddDeleteWebhook(c)
    \/ \E c \in Callers : AddSetWebhook(c)
    \/ \E c \in Callers, t \in MinionTokens :
         Quiet /\ NextCaller(c) /\ RemoveBegin(c, t)
    \/ \E c \in Callers : RemoveDeleteWebhook(c)
    \/ \E t \in Revocable : Revoke(t)
    \/ \E t \in MinionTokens : Quiet /\ RouteUpdate(t)

SpecPush == InitPush /\ [][NextPush]_vars

(***************************************************************************)
(* SpecConc: start() and two coroutines that each call add_minion or       *)
(* delete_minion once, all interleaving freely at their awaits.  No call   *)
(* to the service fails and no token is revoked: what goes wrong here goes *)
(* wrong by interleaving alone.                                            *)
(***************************************************************************)
InitConc ==
    /\ Constructed
    /\ callers = [c \in 1..ConcCallers |-> CallerIdle]
    /\ maxFaults = 0
    /\ oneShot = TRUE

\* nothing has been called yet
Untouched == st.pc = "idle" /\ \A c \in Callers : callers[c].pc = "idle"

NextConc ==
    \/ \E l \in StartupLists :
         Untouched /\ startup_tokens = <<>> /\ RegisterMinions(l)
    \/ StartBegin
    \/ StartMainGetMe
    \/ StartMainDeleteWebhook
    \/ StartRecGetMe
    \/ StartRecDeleteWebhook
    \/ StartSpGetMe
    \/ StartSpDeleteWebhook
    \/ StartGatherRaises
    \/ StartHookGetMe
    \/ StartHookDeleteWebhook
    \/ StartHookSetWebhook
    \/ StartMainSetWebhook
    \/ \E c \in Callers, t \in MinionTokens : AddBegin(c, t)
    \/ \E c \in Callers : AddGetMe(c)
    \/ \E c \in Callers : AddDeleteWebhook(c)
    \/ \E c \in Callers : AddSetWebhook(c)
    \/ \E c \in Callers : AddSpGetMe(c)
    \/ \E c \in Callers : AddSpDeleteWebhook(c)
    \/ \E c \in Callers, t \in MinionTokens : RemoveBegin(c, t)
    \/ \E c \in Callers : RemoveDeleteWebhook(c)
    \/ \E c \in Callers : RemoveJoin(c)
    \/ \E k \in TaskIds : LoopStart(k)
    \/ \E k \in TaskIds : LoopCancelled(k)

SpecConc == InitConc /\ [][NextConc]_vars

(***************************************************************************)
(* SpecLoop: the polling loops of the primary identity and of one minion,  *)
(* as start() leaves them in pull mode, fed by the service.                *)
(***************************************************************************)
\* pull mode after the bring-up of start(): the loops of the primary and of
\* the listed TokenA are created, none has run yet
LoopsCreated ==
    /\ use_webhook = FALSE
    /\ startup_tokens = <<TokenA>>
    /\ running = TRUE
    /\ minions = <<TokenA>>
    /\ polling_tasks = [id \in BotIds |-> IF id = BotId(MainToken) THEN 1
                                          ELSE IF id = BotId(TokenA) THEN 2 ELSE 0]
    /\ tasks = <<NewTask(MainToken), NewTask(TokenA)>>
    /\ st = [StAt("gather") EXCEPT !.gathered = {1, 2}]
    /\ callers = [c \in 1..NumCallers |-> CallerIdle]
    /\ pre = {}
    /\ passed = {TokenA}
    /\ valid = Tokens
    /\ hooked = {TokenB}
    /\ stream = [t \in Tokens |-> <<>>]
    /\ produced = 0
    /\ sent = [t \in Tokens |-> <<>>]
    /\ faults = 0
    /\ observed = TRUE
    /\ oneShot = FALSE
    /\ fed = {}

InitLoop ==
    /\ LoopsCreated
    /\ maxFaults = LoopFaults
    /\ broken = {}

NextLoop ==
    \/ \E k \in TaskIds : LoopStart(k)
    \/ \E k \in TaskIds : LoopFetch(k)
    \/ \E k \in TaskIds : LoopFeed(k)
    \/ \E k \in TaskIds : LoopWake(k)
    \/ \E k \in TaskIds : produced < LoopUpdates /\ Produce(tasks[k].bot)

SpecLoop == InitLoop /\ [][NextLoop]_vars

(***************************************************************************)
(* SpecFair: the same two loops, the primary's get_updates raising at      *)
(* every call and TokenA's calls never failing.  The event loop runs every *)
(* task that is ready: a call that completed, a sleep that elapsed.        *)
(***************************************************************************)
InitFair ==
    /\ LoopsCreated
    /\ maxFaults = 0
    /\ broken = {MainToken}

Scheduled(k) ==
    /\ WF_vars(LoopStart(k))
    /\ WF_vars(LoopFetch(k))
    /\ WF_vars(LoopFeed(k))
    /\ WF_vars(LoopWake(k))

SpecFair == InitFair /\ [][NextLoop]_vars /\ Scheduled(1) /\ Scheduled(2)

(***************************************************************************)
(* Vocabulary of the properties.                                           *)
(***************************************************************************)
\* the Polling Loops of token t that have not stopped
LoopsOf(t) == {k \in TaskIds : tasks[k].bot = t /\ Active(k)}

\* the Polling Loops of a bot id that have not stopped
LoopsOfId(id) == {k \in TaskIds : BotId(tasks[k].bot) = id /\ Active(k)}

\* the loop has issued a fetch
Fetching(k) == tasks[k].pc \in {"fetch", "feed", "sleep"}

\* the bring-up of start() has completed: the loops are gathered (pull),
\* the server listens (push)
BroughtUp == st.pc \in {"gather", "serving"}

\* this step is a call of delete_minion by coroutine c
RemoveCalled(c) ==
    /\ Free(c)
    /\ callers'[c].kind = "remove"
    /\ callers'[c] # callers[c]

\* this step ends a call of coroutine c
Ends(c) == ~Free(c) /\ callers'[c].pc = "done"

\* the offset that follows the updates handed so far
OffsetAfter(handed) == IF handed = <<>> THEN 0 ELSE handed[Len(handed)] + 1

IsPrefix(p, q) == Len(p) <= Len(q) /\ \A i \in 1..Len(p) : p[i] = q[i]

(***************************************************************************)
(* C1.  Pull mode: whenever no add, remove or bring-up is in progress, a   *)
(* minion credential with a running Polling Loop is in the Registry.       *)
(* The code violates it: see C2.                                           *)
(***************************************************************************)
C1_LoopOnlyIfRegistered ==
    (~use_webhook /\ Quiet) =>
        \A t \in MinionTokens : LoopsOf(t) # {} => t \in Keys(minions)

(***************************************************************************)
(* C2.  Pull mode: in every state each identity has at most one Polling    *)
(* Loop that has not stopped, and such a loop, unless delete_minion has    *)
(* cancelled it and is awaiting it, is the one _polling_tasks records.     *)
(* The code violates it: a second loop for an identity replaces the        *)
(* record of the first, which keeps running.                               *)
(***************************************************************************)
C2_OneRecordedLoopPerIdentity ==
    ~use_webhook =>
        \A id \in BotIds :
            /\ Cardinality(LoopsOfId(id)) <= 1
            /\ \A k \in LoopsOfId(id) : ~tasks[k].cancel => polling_tasks[id] = k

(***************************************************************************)
(* C3.  Pull mode: in the state in which delete_minion returns True, no    *)
(* Polling Loop of the removed credential is still running.  The code      *)
(* violates it for a credential with two loops (C2): only the recorded     *)
(* one is cancelled and awaited.                                           *)
(***************************************************************************)
C3_RemoveReturnsAfterLoopStopped ==
    ~use_webhook =>
        \A c \in Callers :
            (callers[c].kind = "remove" /\ callers[c].pc = "done"
                                        /\ callers[c].res = "True")
                => LoopsOf(callers[c].token) = {}

(***************************************************************************)
(* C4.  A Polling Loop without failures: what it has handed to the         *)
(* Pipeline is, in order and without gaps, a prefix of what the service    *)
(* received for its identity; the updates of the batch in hand follow in   *)
(* the same order; the offset is the identifier of the last update handed  *)
(* plus one (0 before the first), so it moves only after the hand-over;    *)
(* and no step decreases the offset.                                       *)
(***************************************************************************)
C4_State ==
    faults = 0 =>
        \A k \in TaskIds :
            /\ IsPrefix(tasks[k].handed \o tasks[k].batch, sent[tasks[k].bot])
            /\ tasks[k].offset = OffsetAfter(tasks[k].handed)

C4_Step == \A k \in TaskIds : tasks'[k].offset >= tasks[k].offset

C4_InOrderDelivery == [](C4_State) /\ [][faults' = 0 => C4_Step]_vars

\* two fetch cycles without a failure: 1, 2 handed from a first batch, then
\* the batch 3, 4 fetched from offset 3, handed, and the offset is 5
C4_Witness ==
    \E k \in TaskIds :
        /\ faults = 0
        /\ tasks[k].handed = <<1, 2, 3, 4>>
        /\ stream[tasks[k].bot] = <<3, 4>>
        /\ tasks[k].offset = 5

(***************************************************************************)
(* C5.  After any failures, the offset a Polling Loop fetches with next    *)
(* is the identifier of the last update it handed to the Pipeline plus     *)
(* one, or 0 if it handed none; and every update the service received for  *)
(* the identity either was handed or is still held by the service at or    *)
(* after that offset, so the retry fetches it again.                       *)
(***************************************************************************)
C5_RetryFromLastHanded ==
    \A k \in TaskIds :
        tasks[k].pc \in {"fetch", "sleep"} =>
            /\ tasks[k].offset = OffsetAfter(tasks[k].handed)
            /\ \A u \in Range(sent[tasks[k].bot]) :
                   \/ u \in Range(tasks[k].handed)
                   \/ u >= tasks[k].offset /\ u \in Range(stream[tasks[k].bot])

\* a delivery failed in the middle of a batch: 1 was handed, 2 was not, the
\* loop sleeps and will fetch from 2, which the service still holds
C5_Witness ==
    \E k \in TaskIds :
        /\ faults > 0
        /\ tasks[k].pc = "sleep"
        /\ tasks[k].handed = <<1>>
        /\ tasks[k].offset = 2
        /\ stream[tasks[k].bot] = <<1, 2>>

(***************************************************************************)
(* C6.  In the step that completes the bring-up of start(), in either      *)
(* mode, the Registry is exactly what it held when start() began plus the  *)
(* listed tokens whose who-am-i probe passed; in pull mode no Polling      *)
(* Loop exists for a listed token whose probe failed.                      *)
(***************************************************************************)
ProbedAndFailed == Range(startup_tokens) \ (passed \cup pre)

C6_StartupReconciliation ==
    [][(~BroughtUp /\ BroughtUp') =>
          /\ Keys(minions') = pre' \cup passed'
          /\ passed' \subseteq Range(startup_tokens)
          /\ \A t \in ProbedAndFailed' :
                /\ t \notin Keys(minions')
                /\ \A k \in 1..Len(tasks') : tasks'[k].bot # t]_vars

\* pull mode, bring-up complete: one listed token passed and one failed
C6_Witness ==
    /\ ~use_webhook
    /\ st.pc = "gather"
    /\ passed # {}
    /\ ProbedAndFailed # {}
    /\ Keys(minions) = pre \cup passed

(***************************************************************************)
(* C7.  Pull mode: a Polling Loop that has issued a fetch belongs to an    *)
(* identity whose webhook teardown has completed: the service, which       *)
(* starts with a subscription for every identity, holds none for it.       *)
(***************************************************************************)
C7_TeardownBeforeFirstFetch ==
    ~use_webhook => \A k \in TaskIds : Fetching(k) => tasks[k].bot \notin hooked

\* the primary, a listed minion and a minion added while running all fetch
C7_Witness ==
    /\ ~use_webhook
    /\ \E k1, k2, k3 \in TaskIds :
          /\ Fetching(k1) /\ tasks[k1].bot = MainToken
          /\ Fetching(k2) /\ tasks[k2].bot \in passed
          /\ Fetching(k3) /\ tasks[k3].bot \in MinionTokens \ (passed \cup pre)

(***************************************************************************)
(* C8.  A call of delete_minion with a token that is not in the Registry   *)
(* ends in the same step (it awaits no call to the service), returns       *)
(* False and changes nothing: not the Registry, the task table, any task   *)
(* or the service.                                                         *)
(***************************************************************************)
C8_RemoveAbsentIsNoOp ==
    [][\A c \in Callers :
          (RemoveCalled(c) /\ callers'[c].token \notin Keys(minions)) =>
              /\ callers'[c].pc = "done"
              /\ callers'[c].res = "False"
              /\ UNCHANGED <<minions, polling_tasks, tasks, running, hooked,
                             stream>>]_vars

\* pull mode, the transport running: a remove has just returned False
C8_Witness ==
    \E c \in Callers :
        /\ ~use_webhook
        /\ running
        /\ tasks # <<>>
        /\ callers[c].kind = "remove"
        /\ callers[c].res = "False"

(***************************************************************************)
(* C9.  A call of add_minion changes nothing before its who-am-i probe     *)
(* completes, and when the probe fails as unauthorized the call ends in    *)
(* that step, returns None and has changed nothing: not the Registry, the  *)
(* task table, any task or a webhook subscription.                         *)
(***************************************************************************)
C9_Step(c) ==
    /\ (Free(c) /\ callers'[c].kind = "add" /\ callers'[c] # callers[c]) =>
          /\ callers'[c].pc = "get_me"
          /\ UNCHANGED <<minions, polling_tasks, tasks, running, hooked, stream>>
    /\ (callers[c].kind = "add" /\ callers[c].pc = "get_me"
            /\ callers'[c] # callers[c] /\ faults' = faults
            /\ callers[c].token \notin valid) =>
          /\ callers'[c].pc = "done"
          /\ callers'[c].res = "None"
          /\ UNCHANGED <<minions, polling_tasks, tasks, running, hooked, stream>>

C9_UnauthorizedAddIsNoOp == [][\A c \in Callers : C9_Step(c)]_vars

\* an add of a token that is in the Registry has just returned None
C9_Witness ==
    \E c \in Callers :
        /\ callers[c].kind = "add"
        /\ callers[c].res = "None"
        /\ callers[c].token \in Keys(minions)

(***************************************************************************)
(* C10.  Pull mode.  The step in which add_minion returns the user has     *)
(* stored the token; it creates and records a Polling Loop for it if and   *)
(* only if _running is set, and with _running unset the token has no loop. *)
(* The step that completes the bring-up of start() leaves exactly one      *)
(* task for each token of the Registry plus one for the primary token.     *)
(***************************************************************************)
SpawnedFor(t) ==
    /\ Len(tasks') = Len(tasks) + 1
    /\ tasks'[Len(tasks')].bot = t
    /\ tasks'[Len(tasks')].pc = "new"
    /\ polling_tasks'[BotId(t)] = Len(tasks')

TasksFor(t) == {k \in TaskIds : tasks[k].bot = t}

C10_AddStep(c) ==
    (callers[c].kind = "add" /\ Ends(c) /\ callers'[c].res = "User") =>
        /\ callers[c].token \in Keys(minions')
        /\ SpawnedFor(callers[c].token) <=> running
        /\ ~running => tasks' = tasks /\ LoopsOf(callers[c].token) = {}

C10_StartStep ==
    (~BroughtUp /\ BroughtUp') =>
        \A t \in Tokens :
            Cardinality(TasksFor(t)') =
                (IF t \in Keys(minions') THEN 1 ELSE 0)
                + (IF t = MainToken THEN 1 ELSE 0)

C10_LoopStartedIffRunning ==
    [][~use_webhook => C10_StartStep /\ \A c \in Callers : C10_AddStep(c)]_vars

\* a token added before start() got its loop from start(), and an add
\* while running has just returned with a loop of its own
C10_Witness ==
    \E c \in Callers :
        /\ st.pc = "gather"
        /\ pre # {}
        /\ \A t \in pre : LoopsOf(t) # {}
        /\ callers[c].kind = "add"
        /\ callers[c].res = "User"
        /\ callers[c].token \notin pre
        /\ LoopsOf(callers[c].token) # {}

(***************************************************************************)
(* C11.  Two Polling Loops, the fetch of one always failing, the other's   *)
(* calls always succeeding, under fair scheduling: the failing loop never  *)
(* stops, it sleeps and fetches again for ever; the other loop is at its   *)
(* fetch again and again, and every update the service receives for it is  *)
(* eventually handed to the Pipeline.                                      *)
(***************************************************************************)
C11_Independence ==
    /\ [](\A k \in TaskIds : Active(k))
    /\ []<>(tasks[1].pc = "sleep")
    /\ []<>(tasks[1].pc = "fetch")
    /\ []<>(tasks[2].pc = "fetch")
    /\ \A u \in 1..LoopUpdates :
          (u \in Range(sent[tasks[2].bot])) ~> (u \in Range(tasks[2].handed))

\* the failing loop sleeps with updates waiting that it never fetched, the
\* other loop has handed over everything the service received for it
C11_Witness ==
    /\ tasks[1].bot \in broken
    /\ tasks[1].pc = "sleep"
    /\ tasks[1].handed = <<>>
    /\ stream[tasks[1].bot] # <<>>
    /\ tasks[2].bot \notin broken
    /\ Len(tasks[2].handed) >= 2
    /\ tasks[2].handed = sent[tasks[2].bot]

(***************************************************************************)
(* C12.  A call made for a minion during the bring-up of start() (the      *)
(* who-am-i probe, the webhook teardown, the webhook registration, the     *)
(* start of its loop) never makes start() raise, whatever the call's       *)
(* outcome.  The code violates it: only TelegramUnauthorizedError, and     *)
(* only of the probe, is caught.                                           *)
(***************************************************************************)
PerMinionCall ==
    \/ st.pc \in {"rec_get_me", "rec_del", "hk_get_me", "hk_del", "hk_set"}
    \/ st.pc \in {"sp_get_me", "sp_del"} /\ st.phase = "minions"

C12_MinionFailuresSkipped == [][PerMinionCall => st'.pc # "raised"]_vars

(***************************************************************************)
(* C13.  Push mode: an update that arrives on the minion route is handed   *)
(* to the Pipeline only if its credential is in the Registry.  The code    *)
(* violates it: the route's handler never consults the Registry.           *)
(***************************************************************************)
C13_RouteServesRegistryOnly ==
    [][\A t \in MinionTokens : (t \in fed' /\ t \notin fed) => t \in Keys(minions)]_vars

(***************************************************************************)
(* C14.  Push mode: delete_minion of a token that is in the Registry       *)
(* awaits the webhook teardown, and whether that call succeeds or raises,  *)
(* the call then ends by returning True with the Registry entry dropped    *)
(* and every other entry kept.                                             *)
(***************************************************************************)
C14_Step(c) ==
    /\ (use_webhook /\ RemoveCalled(c) /\ callers'[c].token \in Keys(minions)) =>
          /\ callers'[c].pc = "rm_del_wh"
          /\ minions' = minions
    /\ (callers[c].kind = "remove" /\ callers[c].pc = "rm_del_wh"
            /\ callers'[c] # callers[c]) =>
          /\ callers'[c].pc = "done"
          /\ callers'[c].res = "True"
          /\ Keys(minions') = Keys(minions) \ {callers[c].token}
          /\ callers[c].token \in Keys(minions)

C14_PushRemoveBestEffort == [][\A c \in Callers : C14_Step(c)]_vars

\* a remove has just returned True although its teardown failed: the
\* service still holds the subscription
C14_Witness ==
    \E c \in Callers :
        /\ use_webhook
        /\ callers[c].kind = "remove"
        /\ callers[c].res = "True"
        /\ faults > 0
        /\ callers[c].token \in hooked
        /\ callers[c].token \notin Keys(minions)

(***************************************************************************)
(* C15.  A Polling Loop that is cancelled while suspended in its fetch,    *)
(* in the hand-over of an update or in its backoff sleep ends by           *)
(* returning: its task is done and not cancelled.  The code violates it    *)
(* for the backoff sleep, which is outside the try that catches the        *)
(* cancellation.                                                           *)
(***************************************************************************)
C15_CancelledLoopReturns ==
    [][\A k \in TaskIds :
          (Fetching(k) /\ tasks[k].cancel /\ tasks'[k].pc = "done") =>
              tasks'[k].result = "returned"]_vars

(***************************************************************************)
(* C16.  Pull mode: start(), once blocked in the gather of its Polling     *)
(* Loops, neither returns nor raises while a Polling Loop is still         *)
(* running.  The code violates it: a gathered task that ends cancelled     *)
(* (C15) makes the gather raise at once.                                   *)
(***************************************************************************)
C16_StartBlocksUntilLoopsEnd ==
    [][(st.pc = "gather" /\ st'.pc # "gather") =>
          \A k \in 1..Len(tasks') : tasks'[k].pc = "done"]_vars

(***************************************************************************)
(* C17.  Pull mode, an add_minion and a delete_minion of the same token    *)
(* interleaving at their awaits, the token having no other loop than the   *)
(* one the add may create: once both calls have ended, with start()        *)
(* blocked in its gather, a Polling Loop runs for the token if and only    *)
(* if the token is in the Registry.  The code violates it: the remove      *)
(* that finds the entry but no task yet deletes the entry, and the add     *)
(* then starts the loop.                                                   *)
(***************************************************************************)
EndedPair(c, d, t) ==
    /\ callers[c].kind = "add" /\ callers[c].pc = "done" /\ callers[c].token = t
    /\ callers[d].kind = "remove" /\ callers[d].pc = "done" /\ callers[d].token = t

C17_AddRemoveAtomic ==
    (~use_webhook /\ st.pc = "gather") =>
        \A c, d \in Callers, t \in MinionTokens :
            (EndedPair(c, d, t) /\ Cardinality(TasksFor(t)) <= 1) =>
                (LoopsOf(t) # {} <=> t \in Keys(minions))

(***************************************************************************)
(* C18.  Two delete_minion calls for the same token that interleave at     *)
(* their awaits, in either mode: each ends by returning True or False,     *)
(* never by raising, and in pull mode none returns True while a Polling    *)
(* Loop of the token is still running.  The code violates both: the call   *)
(* that resumes second deletes an entry that is gone (KeyError), and in    *)
(* pull mode the call that finds no task returns True while the other      *)
(* still awaits the cancelled loop.                                        *)
(***************************************************************************)
C18_Step(c, d) ==
    (/\ c # d
     /\ callers[c].kind = "remove"
     /\ callers'[d].kind = "remove"
     /\ callers'[d].token = callers[c].token
     /\ Ends(c)) =>
        /\ callers'[c].res \in {"True", "False"}
        /\ (~use_webhook /\ callers'[c].res = "True") =>
               \A k \in 1..Len(tasks') :
                   tasks'[k].bot = callers[c].token => tasks'[k].pc = "done"

C18_OverlappingRemoves == [][\A c, d \in Callers : C18_Step(c, d)]_vars

(***************************************************************************)
(* C19.  Pull mode, add_minion and delete_minion calls interleaving with   *)
(* the bring-up of start(), no call to the service failing: the bring-up   *)
(* does not raise, and in the step that completes it, if no call is in     *)
(* progress then, every minion token has exactly one running Polling Loop  *)
(* if it is in the Registry and none otherwise.  The code violates both:   *)
(* a Registry changed during the iteration of line 170 raises              *)
(* RuntimeError, and a token added after _running was set gets a loop      *)
(* from the add and another from start().                                  *)
(***************************************************************************)
C19_Step ==
    /\ ~BroughtUp => st'.pc # "raised"
    /\ (~BroughtUp /\ BroughtUp' /\ \A c \in Callers : callers'[c].pc \in {"idle", "done"}) =>
          \A t \in MinionTokens :
              Cardinality({k \in 1..Len(tasks') : tasks'[k].bot = t /\ tasks'[k].pc # "done"})
                  = IF t \in Keys(minions') THEN 1 ELSE 0

C19_BringUpUnderCalls == [][~use_webhook => C19_Step]_vars

(***************************************************************************)
(* C20.  An add_minion that ends by raising leaves the Registry and the    *)
(* task table as they were: in particular, in pull mode with _running      *)
(* set, its token is not left in the Registry without a Polling Loop, and  *)
(* the step in which it raises changes neither.  The code violates it:     *)
(* the token is stored before the loop start is attempted.                 *)
(***************************************************************************)
C20_Step(c) ==
    (/\ callers[c].kind = "add"
     /\ Ends(c)
     /\ callers'[c].res \notin {"User", "None"}) =>
        /\ UNCHANGED <<minions, polling_tasks>>
        /\ (~use_webhook /\ running /\ callers[c].token \in Keys(minions)) =>
               LoopsOf(callers[c].token) # {}

C20_FailedAddChangesNothing == [][\A c \in Callers : C20_Step(c)]_vars

====
